---- MODULE Spec2Model ----
(***************************************************************************)
(* Appointment scheduling of DaktariHub-be: booking with the 30 minute     *)
(* conflict query, the status update, the read guard, and the Appointment  *)
(* model's pre-save hook.  A booking is cut at its awaits on the           *)
(* Appointment collection, so that requests interleave as they do on the   *)
(* event loop; the status update and the read are one step each.           *)
(***************************************************************************)
EXTENDS Integers, Sequences, FiniteSets, TLC

\* ------------------------------------------------------------------ bounds
MaxOps == 3          \* requests started in one behaviour, handlers interleaved
MaxSeqOps == 4       \* requests started in one behaviour, one handler at a time
MaxAppts == 2        \* documents in the Appointment collection
MaxProfileOps == 3   \* requests started in one behaviour of the profile routes
MaxPatients == 3     \* Patient documents ever created
MaxDoctors == 3      \* Doctor documents ever created
MaxEntries == 1      \* entries of a medicalHistory or allergies list
MaxListOps == 3      \* requests started in one behaviour with the listing routes
MaxNotifyOps == 2    \* requests started in one behaviour of the notifications
MaxReadOps == 2      \* reads in flight together on one store
MaxBooked == 13      \* appointments booked before the notifications are read
MaxClinicOps == 3    \* requests of a behaviour of ClinicSpec
MaxRegOps == 2       \* registrations started in one behaviour, interleaved
MaxGuardOps == 2     \* requests started on the guarded patient routes, interleaved
Slots == {1, 2}      \* handlers that can be in flight together

\* ------------------------------------------------------------ input domains
None == "none"                       \* undefined / null reference or string
PatientIds == {"p1", "p2"}
DoctorIds == {"d1", "d2"}
Users ==
  {[_id |-> "u1", role |-> "patient", profile |-> "p1"],
   [_id |-> "u2", role |-> "patient", profile |-> "p2"],
   [_id |-> "u3", role |-> "doctor", profile |-> "d1"],
   [_id |-> "u4", role |-> "doctor", profile |-> "d2"],
   [_id |-> "u5", role |-> "admin", profile |-> None]}
NoDate == 0                          \* appointmentDate missing from the body
Dates == {1}                         \* day number of the requested date
NoTime == <<>>                       \* appointmentTime missing from the body
Times == {<<10, 0>>, <<10, 30>>, <<10, 40>>}
NoDuration == 0                      \* duration missing from the body
Durations == {60}
\* request bodies of POST /book: the well-formed ones, and one body per
\* required field with that field missing
FullBodies ==
  [doctorId : DoctorIds \cup {"d9"}, appointmentDate : Dates,
   appointmentTime : Times, reasonForVisit : {"r"},
   duration : Durations]
SampleBody ==
  [doctorId |-> "d1", appointmentDate |-> 1, appointmentTime |-> <<10, 0>>,
   reasonForVisit |-> "r", duration |-> NoDuration]
BookBodies ==
  FullBodies \cup
    {[SampleBody EXCEPT !.doctorId = None],
     [SampleBody EXCEPT !.appointmentDate = NoDate],
     [SampleBody EXCEPT !.appointmentTime = NoTime],
     [SampleBody EXCEPT !.reasonForVisit = None]}
NoFee == -1                          \* consultationFee not set on the profile
\* the emails of the identities that act
Emails0 == [u1 |-> "e1", u2 |-> "e2", u3 |-> "e3", u4 |-> "e4", u5 |-> "e5"]
\* request bodies of POST /register: e1 is the email of a stored identity
RegEmails == {"e1", "e6", "e7"}
RegRoles == {"patient", "doctor", "admin"}
\* the _ids the store gives to new User documents, in order
UserOids == <<"u6", "u7", "u8">>
\* the _ids the store gives to new Patient and Doctor documents, in order
PatientOids == <<"p1", "p2", "p3", "p4">>
DoctorOids == <<"d1", "d2", "d3", "d4">>
\* request bodies of PUT /patients/:id
NoList == <<None>>                   \* a list field missing from the body
PatientBodies == [phoneNumber : {None, "b"}, medicalHistory : {NoList, <<>>}]
\* request bodies of POST and PUT /doctors
DoctorBodies ==
  [consultationFee : {NoFee, 0, 70}, availability : {NoList, <<"Friday">>}]
\* the server's zone: local time = UTC + tz hours
TzHours == {-1, 0}
\* query strings of the listing routes
NoPage == 0                          \* page missing from the query
Pages == {NoPage, 2}
NoLimit == 0                         \* limit missing from the query
Limits == {NoLimit, 1, 2}
DefaultLimit == 10
NotifyLimit == 10                    \* .limit(10) of the notifications
\* new Date() when the notifications are read
Nows == {<<1, <<10, 30>>>>, <<2, <<0, 0>>>>}
StatusFilters == {None, "scheduled"}
QueryDates == {NoDate, 1, 2}         \* date, from, to: YYYY-MM-DD day numbers
BodyStatuses ==
  {"scheduled", "confirmed", "completed", "cancelled", "no-show", "pending"}
BodyNotes == {None, "n"}

\* ------------------------------------------------------------------- state
VARIABLES
  doctors,     \* Doctor collection: _id -> document
  patients,    \* Patient collection: _id -> document
  gone,        \* the _ids of the Patient documents deleted so far
  appts,       \* Appointment collection, in insertion order; _id = position
  req,         \* per slot: the handler in flight, with its locals
  resp,        \* the response sent by the last step, NoResp if it sent none
  ops,         \* requests started so far
  run,         \* the slots this behaviour uses, the requests it may start,
               \* and whether its store calls can be rejected
  users        \* User collection: _id -> document

vars == <<doctors, patients, gone, appts, req, resp, ops, run, users>>

NoFees == [consultationFee |-> 0, additionalCharges |-> 0, totalAmount |-> 0]

NoDoc ==
  [appointmentId |-> <<>>, patient |-> None, doctor |-> None,
   appointmentDate |-> 0, duration |-> 0, status |-> None, notes |-> None,
   fees |-> NoFees]

\* the query of a listing request: the profile listed, the filters, the page
NoQuery ==
  [who |-> None, status |-> None, date |-> NoDate, from |-> NoDate,
   to |-> NoDate, page |-> NoPage, limit |-> NoLimit, now |-> 0]

NoPagination == [page |-> 0, pages |-> 0, total |-> 0]

Idle ==
  [op |-> "idle", pc |-> "idle", user |-> [_id |-> None, role |-> None, profile |-> None],
   ref |-> 0, status |-> None, notes |-> None, was |-> None, doc |-> NoDoc,
   query |-> NoQuery, list |-> <<>>, id |-> None, email |-> None]

NoResp ==
  [code |-> 0, message |-> None, data |-> NoDoc, list |-> <<>>,
   pagination |-> NoPagination, to |-> Idle]

\* -------------------------------------------------------- pure helpers
\* new Date(`${appointmentDate}T${appointmentTime}`).getTime(), in ms
DateTimeMs(date, time) == ((date * 24 + time[1]) * 60 + time[2]) * 60000

BufferMinutes == 30

\* mutant: the window excludes its end points
ConflictFilter_Strict(a, doctorId, t) ==
  /\ a.doctor = doctorId
  /\ a.appointmentDate > t - BufferMinutes * 60000
  /\ a.appointmentDate < t + BufferMinutes * 60000
  /\ a.status \notin {"cancelled", "no-show"}

\* the filter of the conflict query
ConflictFilter(a, doctorId, t) ==
  /\ a.doctor = doctorId
  /\ a.appointmentDate >= t - BufferMinutes * 60000
  /\ a.appointmentDate =< t + BufferMinutes * 60000
  /\ a.status \notin {"cancelled", "no-show"}

\* Appointment.findOne(filter) is not null
ConflictingAppointment(store, doctorId, t) ==
  \E i \in 1..Len(store) : ConflictFilter(store[i], doctorId, t)

\* doctor.consultationFee || 100
FeeOrDefault(fee) == IF fee = NoFee \/ fee = 0 THEN 100 ELSE fee

\* `APT${String(count + 1).padStart(6, '0')}`
MintAppointmentId(count) == <<"APT", count + 1>>

\* mutant: the total leaves the consultation fee out
TotalAmount_NoFee(fees) == fees.additionalCharges

\* this.fees.totalAmount = consultationFee + (additionalCharges || 0)
TotalAmount(fees) == fees.consultationFee + fees.additionalCharges

\* mutant: every save reads the consultation fee of the doctor again
PreSave_Reread(doc, count) ==
  [doc EXCEPT
     !.appointmentId =
        IF doc.appointmentId = <<>> THEN MintAppointmentId(count) ELSE @,
     !.fees.consultationFee = FeeOrDefault(doctors[doc.doctor].consultationFee),
     !.fees.totalAmount =
        FeeOrDefault(doctors[doc.doctor].consultationFee) + doc.fees.additionalCharges]

\* pre('save'): mint the id when unset (count is the countDocuments result),
\* then recompute the total
PreSave(doc, count) ==
  [doc EXCEPT
     !.appointmentId =
        IF doc.appointmentId = <<>> THEN MintAppointmentId(count) ELSE @,
     !.fees.totalAmount = TotalAmount(doc.fees)]

\* mutant: appointmentId has no unique index
DuplicateKey_NoIndex(store, doc) == FALSE

\* the unique index on appointmentId
DuplicateKey(store, doc) ==
  \E i \in 1..Len(store) : store[i].appointmentId = doc.appointmentId

\* new Appointment({...}) of createAppointment
NewAppointment(user, body, doctor) ==
  [NoDoc EXCEPT
     !.patient = user.profile,
     !.doctor = body.doctorId,
     !.appointmentDate = DateTimeMs(body.appointmentDate, body.appointmentTime),
     !.duration = IF body.duration = NoDuration THEN 30 ELSE body.duration,
     !.fees = [consultationFee |-> FeeOrDefault(doctor.consultationFee),
               additionalCharges |-> 0,
               totalAmount |-> FeeOrDefault(doctor.consultationFee)],
     !.status = "scheduled"]

\* mutant: the list is the whole enum of the schema
UpdatableStatuses_Enum ==
  {"scheduled", "confirmed", "in-progress", "completed", "cancelled", "no-show"}

\* the statuses updateAppointmentStatus accepts
UpdatableStatuses ==
  {"confirmed", "in-progress", "completed", "cancelled", "no-show"}

\* mutant: the doctor test is missing
NotAuthorized_PatientOnly(user, doc) ==
  user.role = "patient" /\ doc.patient # user.profile

\* the two role tests of updateAppointmentStatus
NotAuthorized(user, doc) ==
  \/ user.role = "patient" /\ doc.patient # user.profile
  \/ user.role = "doctor" /\ doc.doctor # user.profile

\* mutant: the patient test is missing
NotAuthorizedToView_DoctorOnly(user, doc) ==
  user.role = "doctor" /\ doc.doctor # user.profile

\* the two role tests of getAppointmentById
NotAuthorizedToView(user, doc) ==
  \/ user.role = "patient" /\ doc.patient # user.profile
  \/ user.role = "doctor" /\ doc.doctor # user.profile

\* mutant: notes is assigned whether or not the body carries it
Assign_Overwrite(doc, status, notes) ==
  [doc EXCEPT !.status = status, !.notes = notes]

\* appointment.status = status; if (notes) appointment.notes = notes
\* (an absent and an empty notes are both falsy)
Assign(doc, status, notes) ==
  [doc EXCEPT !.status = status,
              !.notes = IF notes \notin {None, ""} THEN notes ELSE @]

Response(code, message, data) ==
  [code |-> code, message |-> message, data |-> data, list |-> <<>>,
   pagination |-> NoPagination, to |-> Idle]

\* the response of the handler in flight on slot s; to: the locals of the
\* handler that sends it
Respond(s, code, message, data) ==
  resp' = [Response(code, message, data) EXCEPT !.to = req[s]]

Silent == resp' = NoResp

\* the message of an error no handler of globalErrorHandler classifies
StoreError == "store call rejected"

\* what globalErrorHandler sends for such an error
ServerError == Response(500, StoreError, NoDoc)

\* ------------------------------------------------------------------- init
\* the profiles the store starts with
Doctors0 ==
  [d \in DoctorIds |->
     [user |-> IF d = "d1" THEN "u3" ELSE "u4",
      doctorId |-> <<"DOC", IF d = "d1" THEN 1 ELSE 2>>,
      consultationFee |-> IF d = "d1" THEN 50 ELSE 0,
      availability |-> <<"Monday">>]]
\* the User documents of the identities that act
Users0 ==
  [i \in {u._id : u \in Users} |->
     [email |-> Emails0[i], role |-> (CHOOSE u \in Users : u._id = i).role]]
Patients0 ==
  [p \in {"p1"} |->
     [user |-> "u1", patientId |-> <<"PAT", 1>>, phoneNumber |-> "a",
      medicalHistory |-> <<>>, allergies |-> <<>>]]

Started ==
  /\ doctors = Doctors0
  /\ patients = Patients0
  /\ gone = {}
  /\ users = Users0
  /\ appts = <<>>
  /\ req = [s \in Slots |-> Idle]
  /\ resp = NoResp
  /\ ops = 0

Init ==
  Started /\ run = [slots |-> Slots, maxOps |-> MaxOps, faults |-> FALSE, tz |-> 0]

\* one request at a time: only slot 1 is used
SeqInit ==
  Started /\ run = [slots |-> {1}, maxOps |-> MaxSeqOps, faults |-> FALSE, tz |-> 0]

\* one request at a time, and any awaited store call may be rejected
FaultInit ==
  Started /\ run = [slots |-> {1}, maxOps |-> MaxSeqOps, faults |-> TRUE, tz |-> 0]

\* a request arrives on slot s; slot 2 is taken only while slot 1 is busy
CanStart(s) ==
  /\ s \in run.slots
  /\ req[s].pc = "idle"
  /\ ops < run.maxOps
  /\ s = 2 => req[1].pc # "idle"

\* bookings in flight
Booking == {t \in Slots : req[t].op = "book"}

Finish(s) == req' = [req EXCEPT ![s] = Idle]

\* ------------------------------------------------------- createAppointment
\* mutant: the patient lookup comes before the doctor lookup
BookReject_PatientFirst(user, body) ==
  IF \/ body.doctorId = None \/ body.appointmentDate = NoDate
     \/ body.appointmentTime = NoTime \/ body.reasonForVisit = None
  THEN Response(400, "All required fields must be provided", NoDoc)
  ELSE IF user.profile \notin DOMAIN patients
  THEN Response(404, "Patient profile not found", NoDoc)
  ELSE IF body.doctorId \notin DOMAIN doctors
  THEN Response(404, "Doctor not found", NoDoc)
  ELSE NoResp

\* day 0 is Thursday 1970-01-01
DayNames ==
  <<"Thursday", "Friday", "Saturday", "Sunday", "Monday", "Tuesday", "Wednesday">>
Weekday(date) == DayNames[(date % 7) + 1]
Declares(availability, date) ==
  \E k \in 1..Len(availability) : availability[k] = Weekday(date)

\* mutant: a booking on a day the doctor declares no window for is refused
BookReject_Windows(user, body) ==
  IF \/ body.doctorId = None \/ body.appointmentDate = NoDate
     \/ body.appointmentTime = NoTime \/ body.reasonForVisit = None
  THEN Response(400, "All required fields must be provided", NoDoc)
  ELSE IF body.doctorId \notin DOMAIN doctors
  THEN Response(404, "Doctor not found", NoDoc)
  ELSE IF user.profile \notin DOMAIN patients
  THEN Response(404, "Patient profile not found", NoDoc)
  ELSE IF ~Declares(doctors[body.doctorId].availability, body.appointmentDate)
  THEN Response(409, "Doctor is not available at this time", NoDoc)
  ELSE NoResp

\* the early returns before the conflict query: required fields,
\* Doctor.findById, Patient.findById; NoResp when none is taken
BookReject(user, body) ==
  IF \/ body.doctorId = None \/ body.appointmentDate = NoDate
     \/ body.appointmentTime = NoTime \/ body.reasonForVisit = None
  THEN Response(400, "All required fields must be provided", NoDoc)
  ELSE IF body.doctorId \notin DOMAIN doctors
  THEN Response(404, "Doctor not found", NoDoc)
  ELSE IF user.profile \notin DOMAIN patients
  THEN Response(404, "Patient profile not found", NoDoc)
  ELSE NoResp

\* arrival: the early returns, then the document is built and the conflict
\* query is sent
BookBegin(s) ==
  /\ CanStart(s)
  /\ Len(appts) + Cardinality(Booking) < MaxAppts
  /\ ops' = ops + 1
  /\ \E user \in Users, body \in BookBodies :
       \/ IF BookReject(user, body) # NoResp
          THEN /\ resp' = BookReject(user, body)
               /\ UNCHANGED req
          ELSE /\ req' = [req EXCEPT ![s] =
                    [Idle EXCEPT
                       !.op = "book", !.pc = "findConflict", !.user = user,
                       !.doc = NewAppointment(user, body, doctors[body.doctorId])]]
               /\ Silent
       \/ /\ run.faults /\ BookReject(user, body).code # 400
          /\ resp' = [ServerError EXCEPT
                        !.to = [Idle EXCEPT !.op = "book", !.user = user]]
          /\ UNCHANGED req
  /\ UNCHANGED <<doctors, patients, gone, appts, run, users>>

\* Appointment.findOne(conflict filter) answers: 409, or save() is called
\* and its pre-save hook sends countDocuments()
BookFindConflict(s) ==
  /\ req[s].op = "book" /\ req[s].pc = "findConflict"
  /\ \/ IF ConflictingAppointment(appts, req[s].doc.doctor, req[s].doc.appointmentDate)
        THEN /\ Respond(s, 409, "Doctor is not available at this time", NoDoc)
             /\ Finish(s)
        ELSE /\ req' = [req EXCEPT ![s].pc = "count"]
             /\ Silent
     \/ /\ run.faults
        /\ Respond(s, 500, StoreError, NoDoc)
        /\ Finish(s)
  /\ UNCHANGED <<doctors, patients, gone, appts, ops, run, users>>

\* countDocuments() answers: the hook mints the id and the total, the insert
\* is sent
BookCount(s) ==
  /\ req[s].op = "book" /\ req[s].pc = "count"
  /\ \/ /\ req' = [req EXCEPT ![s].pc = "insert",
                              ![s].doc = PreSave(req[s].doc, Len(appts))]
        /\ Silent
     \/ /\ run.faults
        /\ Respond(s, 500, StoreError, NoDoc)
        /\ Finish(s)
  /\ UNCHANGED <<doctors, patients, gone, appts, ops, run, users>>

\* mutant: the insert runs the conflict query again and refuses on a hit
BookInsert_Recheck(s) ==
  /\ req[s].op = "book" /\ req[s].pc = "insert"
  /\ IF \/ DuplicateKey(appts, req[s].doc)
        \/ ConflictingAppointment(appts, req[s].doc.doctor, req[s].doc.appointmentDate)
     THEN /\ Respond(s, 409, "Doctor is not available at this time", NoDoc)
          /\ UNCHANGED appts
     ELSE /\ appts' = Append(appts, req[s].doc)
          /\ Respond(s, 201, "Appointment booked successfully", req[s].doc)
  /\ Finish(s)
  /\ UNCHANGED <<doctors, patients, gone, ops, run, users>>

\* mutant: the save replaces the stored document that holds the same
\* appointmentId
BookInsert_Upsert(s) ==
  /\ req[s].op = "book" /\ req[s].pc = "insert"
  /\ IF DuplicateKey(appts, req[s].doc)
     THEN appts' = [i \in 1..Len(appts) |->
                      IF appts[i].appointmentId = req[s].doc.appointmentId
                      THEN req[s].doc ELSE appts[i]]
     ELSE appts' = Append(appts, req[s].doc)
  /\ Respond(s, 201, "Appointment booked successfully", req[s].doc)
  /\ Finish(s)
  /\ UNCHANGED <<doctors, patients, gone, ops, run, users>>

\* the insert answers: duplicate key error of the unique index, or the
\* document is stored, populate() reads the two profiles and the 201 response
\* is sent; a rejected insert stores nothing, a rejected populate() comes
\* after the document is stored
BookInsert(s) ==
  /\ req[s].op = "book" /\ req[s].pc = "insert"
  /\ \/ IF DuplicateKey(appts, req[s].doc)
        THEN /\ Respond(s, 409, "appointmentId already exists", NoDoc)
             /\ UNCHANGED appts
        ELSE /\ appts' = Append(appts, req[s].doc)
             /\ Respond(s, 201, "Appointment booked successfully", req[s].doc)
     \/ /\ run.faults
        /\ Respond(s, 500, StoreError, NoDoc)
        /\ UNCHANGED appts
     \/ /\ run.faults /\ ~DuplicateKey(appts, req[s].doc)
        /\ appts' = Append(appts, req[s].doc)
        /\ Respond(s, 500, StoreError, NoDoc)
  /\ Finish(s)
  /\ UNCHANGED <<doctors, patients, gone, ops, run, users>>

\* -------------------------------------------------- updateAppointmentStatus
\* mutant: a document in a terminal status is not updated
UpdateReject_Terminal(user, ref, status) ==
  IF status \notin UpdatableStatuses
  THEN Response(400, "Invalid appointment status", NoDoc)
  ELSE IF ref \notin 1..Len(appts)
  THEN Response(404, "Appointment not found", NoDoc)
  ELSE IF NotAuthorized(user, appts[ref])
  THEN Response(403, "Not authorized to update this appointment", NoDoc)
  ELSE IF appts[ref].status \in {"completed", "cancelled", "no-show"}
  THEN Response(400, "Invalid appointment status", NoDoc)
  ELSE NoResp

\* the early returns: the status test, Appointment.findById, the permission
\* test; NoResp when none is taken
UpdateReject(user, ref, status) ==
  IF status \notin UpdatableStatuses
  THEN Response(400, "Invalid appointment status", NoDoc)
  ELSE IF ref \notin 1..Len(appts)
  THEN Response(404, "Appointment not found", NoDoc)
  ELSE IF NotAuthorized(user, appts[ref])
  THEN Response(403, "Not authorized to update this appointment", NoDoc)
  ELSE NoResp

\* the whole handler as one step, taken at its save(): between findById and
\* save() it reads only patient and doctor, which no handler writes, and
\* save() sends the paths it assigned, so the outcome is that of running it
\* at the save
UpdateAppointmentStatus(s) ==
  /\ CanStart(s)
  /\ ops' = ops + 1
  /\ \E user \in Users, ref \in 1..MaxAppts, status \in BodyStatuses :
       IF UpdateReject(user, ref, status) # NoResp
       THEN /\ \/ resp' = UpdateReject(user, ref, status)
               \/ /\ run.faults /\ status \in UpdatableStatuses
                  /\ resp' = ServerError
            /\ UNCHANGED appts
       ELSE \E notes \in BodyNotes :
            LET doc == PreSave(Assign(appts[ref], status, notes), Len(appts))
                to == [Idle EXCEPT
                         !.op = "update", !.user = user, !.ref = ref,
                         !.status = status, !.notes = notes,
                         !.was = appts[ref].status]
            IN \/ /\ appts' = [appts EXCEPT ![ref] = doc]
                  /\ resp' =
                       [Response(200, "Appointment status updated successfully", doc)
                          EXCEPT !.to = to]
               \/ /\ run.faults
                  /\ resp' = [ServerError EXCEPT !.to = to]
                  /\ \/ UNCHANGED appts
                     \/ appts' = [appts EXCEPT ![ref] = doc]
  /\ UNCHANGED <<doctors, patients, gone, req, run, users>>

\* ------------------------------------------------------ getAppointmentById
\* findById with populate, the permission test, the response
GetByIdResponse(user, ref) ==
  IF ref \notin 1..Len(appts)
  THEN Response(404, "Appointment not found", NoDoc)
  ELSE IF NotAuthorizedToView(user, appts[ref])
  THEN Response(403, "Not authorized to view this appointment", NoDoc)
  ELSE Response(200, "Appointment retrieved successfully", appts[ref])

GetById(s) ==
  /\ CanStart(s)
  /\ ops' = ops + 1
  /\ \E user \in Users, ref \in 1..MaxAppts :
       \/ resp' = [GetByIdResponse(user, ref) EXCEPT
                     !.to = [Idle EXCEPT !.op = "get", !.user = user, !.ref = ref]]
       \/ run.faults /\ resp' = ServerError
  /\ UNCHANGED <<doctors, patients, gone, appts, req, run, users>>

\* ---------------------------------------------------------------- listings
\* Instants are kept on the server's wall clock (ms since 1970-01-01T00:00
\* local), which is what new Date(`${date}T${time}`) reads.  new Date(date)
\* of a date-only string is UTC midnight: run.tz hours later on this clock.
DayMs == 86400000
HourMs == 3600000
DateOnlyMs(date) == date * DayMs + run.tz * HourMs

\* setHours(0, 0, 0, 0) and setHours(23, 59, 59, 999)
StartOfDay(ms) == ms - (ms % DayMs)
EndOfDay(ms) == StartOfDay(ms) + DayMs - 1

ListOps == {"myPatient", "myDoctor", "ofPatient", "ofDoctor"}
DoctorLists == {"myDoctor", "ofDoctor", "notify"}

\* the filter object each handler builds, as a predicate on a document
Matches(op, q, doc) ==
  /\ IF op \in DoctorLists THEN doc.doctor = q.who ELSE doc.patient = q.who
  /\ q.status # None => doc.status = q.status
  /\ op = "myDoctor" /\ q.date # NoDate =>
       /\ doc.appointmentDate >= StartOfDay(DateOnlyMs(q.date))
       /\ doc.appointmentDate =< EndOfDay(DateOnlyMs(q.date))
  /\ op = "ofDoctor" /\ q.date # NoDate =>
       /\ doc.appointmentDate >= DateOnlyMs(q.date)
       /\ doc.appointmentDate < DateOnlyMs(q.date) + DayMs
  /\ op = "notify" =>
       /\ doc.status = "scheduled"
       /\ doc.appointmentDate >= StartOfDay(q.now)
  /\ op = "ofPatient" /\ q.from # NoDate /\ q.to # NoDate =>
       /\ doc.appointmentDate >= DateOnlyMs(q.from)
       /\ doc.appointmentDate =< DateOnlyMs(q.to)

Matching(op, q) == {i \in 1..Len(appts) : Matches(op, q, appts[i])}

\* sort({ appointmentDate: 1, ... }) of the doctor listings and
\* sort({ appointmentDate: -1 }) of the patient listings; documents with
\* equal keys come in an order the store chooses
Sorted(op, f) ==
  \A j, k \in DOMAIN f :
    j < k => IF op \in DoctorLists
             THEN appts[f[j]].appointmentDate =< appts[f[k]].appointmentDate
             ELSE appts[f[j]].appointmentDate >= appts[f[k]].appointmentDate

Orders(op, q) ==
  {f \in [1..Cardinality(Matching(op, q)) -> Matching(op, q)] :
     /\ \A j, k \in DOMAIN f : j # k => f[j] # f[k]
     /\ Sorted(op, f)}

\* page = 1 and limit = 10 when the query has none
PageOf(q) == IF q.page = NoPage THEN 1 ELSE q.page
LimitOf(q) == IF q.limit = NoLimit THEN DefaultLimit ELSE q.limit

\* mutant: the first page is skipped too
SkipOf_PageTimesLimit(q) == PageOf(q) * LimitOf(q)

\* (page - 1) * limit
SkipOf(q) == (PageOf(q) - 1) * LimitOf(q)

\* .skip(skip).limit(limit) of an ordered result
Slice(f, q) ==
  LET rest == Len(f) - SkipOf(q)
      n == IF rest < 0 THEN 0 ELSE IF rest < LimitOf(q) THEN rest ELSE LimitOf(q)
  IN [k \in 1..n |-> appts[f[SkipOf(q) + k]]]

\* what Appointment.find(filter).sort().skip().limit() can resolve to
Found(op, q) == {Slice(f, q) : f \in Orders(op, q)}

\* Math.ceil(total / limit)
Ceil(total, limit) == (total + limit - 1) \div limit

\* A listing writes nothing, so no later request depends on it: with one
\* request at a time it is taken as the last request of a behaviour
AfterListing == IF run.slots = {1} THEN run.maxOps ELSE ops + 1

\* the handler's steps up to its find: the query is read, the filter built,
\* and the page found is kept until the count; a query with from has to on
\* the next day
ListFind(s, op, whos, dates, froms) ==
  /\ CanStart(s)
  /\ ops' = AfterListing
  /\ \E who \in whos, status \in StatusFilters, date \in dates,
        from \in froms, page \in Pages, limit \in Limits :
       LET q == [who |-> who.profile, status |-> status, date |-> date,
                 from |-> from,
                 to |-> IF from = NoDate THEN NoDate ELSE from + 1,
                 page |-> page, limit |-> limit, now |-> 0]
       IN \E l \in Found(op, q) :
            req' = [req EXCEPT ![s] =
                      [Idle EXCEPT !.op = op, !.pc = "count", !.user = who,
                                   !.query = q, !.list = l]]
  /\ Silent
  /\ UNCHANGED <<doctors, patients, gone, appts, run, users>>

\* GET /my-appointments of a patient: AppointmentController
GetPatientAppointments(s) ==
  ListFind(s, "myPatient", {u \in Users : u.role = "patient"}, {NoDate}, {NoDate})

\* GET /my-appointments of a doctor: AppointmentController
GetDoctorAppointments(s) ==
  ListFind(s, "myDoctor", {u \in Users : u.role = "doctor"}, QueryDates, {NoDate})

\* GET /my-appointments of any other role
MyAppointmentsRoute(s) ==
  /\ CanStart(s)
  /\ ops' = AfterListing
  /\ \E user \in {u \in Users : u.role \notin {"patient", "doctor"}} :
       resp' = [Response(403, "Invalid role for this endpoint", NoDoc) EXCEPT
                  !.to = [Idle EXCEPT !.op = "my", !.user = user]]
  /\ UNCHANGED <<doctors, patients, gone, appts, req, run, users>>

\* GET /patients/:id/appointments: PatientController
PatientAppointments(s) ==
  ListFind(s, "ofPatient", {u \in Users : u.role = "patient"}, {NoDate},
           {NoDate, 1})

\* GET /doctors/:id/appointments: DoctorController
DoctorAppointments(s) ==
  ListFind(s, "ofDoctor", {u \in Users : u.role = "doctor"}, QueryDates, {NoDate})

\* countDocuments(filter) and the response, of the four listing handlers
ListCount(s) ==
  /\ req[s].op \in ListOps
  /\ req[s].pc = "count"
  /\ LET q == req[s].query
         total == Cardinality(Matching(req[s].op, q))
     IN resp' =
          [Response(200,
                    IF req[s].op \in DoctorLists
                    THEN "Doctor appointments retrieved successfully"
                    ELSE "Patient appointments retrieved successfully",
                    NoDoc)
             EXCEPT !.list = req[s].list,
                    !.pagination = [page |-> PageOf(q),
                                    pages |-> Ceil(total, LimitOf(q)),
                                    total |-> total],
                    !.to = req[s]]
  /\ Finish(s)
  /\ UNCHANGED <<doctors, patients, gone, appts, ops, run, users>>

\* ------------------------------------------------------------ notifications
\* the orders sort({ appointmentDate: 1 }) can give the documents of S:
\* the earliest first, documents with equal instants in any order
RECURSIVE Ascending(_)
Ascending(S) ==
  IF S = {} THEN {<<>>}
  ELSE UNION {{<<i>> \o t : t \in Ascending(S \ {i})} :
                i \in {j \in S : \A k \in S :
                         appts[j].appointmentDate =< appts[k].appointmentDate}}

\* mutant: the result is not capped
Capped_All(f) == [k \in 1..Len(f) |-> appts[f[k]]]

\* .limit(10)
Capped(f) ==
  [k \in 1..(IF Len(f) < NotifyLimit THEN Len(f) ELSE NotifyLimit) |-> appts[f[k]]]

\* GET /notifications of a doctor: today, the find, the response
GetDoctorNotifications(s) ==
  /\ CanStart(s)
  /\ ops' = ops + 1
  /\ \E user \in {u \in Users : u.role = "doctor"}, now \in Nows :
       LET q == [NoQuery EXCEPT !.who = user.profile,
                                !.now = DateTimeMs(now[1], now[2])]
       IN \E f \in Ascending(Matching("notify", q)) :
            resp' = [Response(200, "Doctor notifications retrieved successfully",
                              NoDoc)
                       EXCEPT !.list = Capped(f),
                              !.to = [Idle EXCEPT !.op = "notify", !.user = user,
                                                  !.query = q]]
  /\ UNCHANGED <<doctors, patients, gone, appts, req, run, users>>

\* GET /notifications of any other role
NotificationsRoute(s) ==
  /\ CanStart(s)
  /\ ops' = ops + 1
  /\ \E user \in {u \in Users : u.role # "doctor"} :
       resp' = [Response(403, "Only doctors can access notifications", NoDoc)
                  EXCEPT !.to = [Idle EXCEPT !.op = "notify", !.user = user]]
  /\ UNCHANGED <<doctors, patients, gone, appts, req, run, users>>

\* ------------------------------------------------------- PatientController
\* `PAT${String(count + 1).padStart(6, '0')}`
MintPatientId(count) == <<"PAT", count + 1>>

\* the _id of the Patient document created next
NewPatientOid == PatientOids[Cardinality(DOMAIN patients \cup gone) + 1]

\* mutant: patientId has no unique index
PatientIdTaken_NoIndex(id) == FALSE

\* the unique index on patientId
PatientIdTaken(id) == \E p \in DOMAIN patients : patients[p].patientId = id

\* a store with one document more, or one document replaced
WithDoc(store, oid, doc) ==
  [o \in DOMAIN store \cup {oid} |-> IF o = oid THEN doc ELSE store[o]]

\* what a profile route answers
Answer(op, code, message) ==
  [Response(code, message, NoDoc) EXCEPT !.to = [Idle EXCEPT !.op = op]]

\* Patient.create / profile.save() of register: the pre-save hook sends
\* countDocuments()
CreatePatientCount(s) ==
  /\ CanStart(s)
  /\ Cardinality(DOMAIN patients \cup gone)
       + Cardinality({t \in Slots : req[t].op = "createPatient"}) < MaxPatients
  /\ ops' = ops + 1
  /\ \E user \in {u \in Users : u.role = "patient"} :
       req' = [req EXCEPT ![s] =
          [Idle EXCEPT !.op = "createPatient", !.pc = "count", !.user = user]]
  /\ Silent
  /\ UNCHANGED <<doctors, patients, gone, appts, run, users>>

\* countDocuments() answers: the hook mints the id, the insert is sent
CreatePatientMint(s) ==
  /\ req[s].op = "createPatient" /\ req[s].pc = "count"
  /\ req' = [req EXCEPT ![s].pc = "insert",
                        ![s].ref = Cardinality(DOMAIN patients)]
  /\ Silent
  /\ UNCHANGED <<doctors, patients, gone, appts, ops, run, users>>

\* the insert answers: duplicate key error, or the document is stored
CreatePatientInsert(s) ==
  /\ req[s].op = "createPatient" /\ req[s].pc = "insert"
  /\ IF PatientIdTaken(MintPatientId(req[s].ref))
     THEN /\ Respond(s, 409, "patientId already exists", NoDoc)
          /\ UNCHANGED patients
     ELSE /\ patients' = WithDoc(patients, NewPatientOid,
                            [user |-> req[s].user._id,
                             patientId |-> MintPatientId(req[s].ref),
                             phoneNumber |-> "a",
                             medicalHistory |-> <<>>, allergies |-> <<>>])
          /\ Respond(s, 201, "Patient profile created successfully", NoDoc)
  /\ Finish(s)
  /\ UNCHANGED <<doctors, gone, appts, ops, run, users>>

\* the assignments of updatePatient
AssignPatient(doc, body) ==
  [doc EXCEPT
     !.phoneNumber = IF body.phoneNumber # None THEN body.phoneNumber ELSE @,
     !.medicalHistory = IF body.medicalHistory # NoList THEN body.medicalHistory ELSE @]

\* the handlers that load one Patient document, change it and save it;
\* changed: the document each stored _id would be saved as
PatientChange(s, op, message, code, changed) ==
  /\ CanStart(s)
  /\ ops' = ops + 1
  /\ \E oid \in DOMAIN changed \cup gone \cup {"p9"} :
       IF oid \notin DOMAIN patients
       THEN /\ resp' = Answer(op, 404, "Patient not found")
            /\ UNCHANGED patients
       ELSE /\ patients' = [patients EXCEPT ![oid] = changed[oid]]
            /\ resp' = Answer(op, code, message)
  /\ UNCHANGED <<doctors, gone, appts, req, run, users>>

UpdatePatient(s) ==
  \E body \in PatientBodies :
    PatientChange(s, "updatePatient", "Patient profile updated successfully", 200,
                  [o \in DOMAIN patients |-> AssignPatient(patients[o], body)])

\* the documents whose list l has room for one more entry
Room(l) == {o \in DOMAIN patients : Len(patients[o][l]) < MaxEntries}

AddMedicalHistory(s) ==
  PatientChange(s, "addMedicalHistory",
                "Medical history entry added successfully", 201,
                [o \in Room("medicalHistory") |->
                   [patients[o] EXCEPT !.medicalHistory = Append(@, "h")]])

AddAllergy(s) ==
  PatientChange(s, "addAllergy", "Allergy added successfully", 201,
                [o \in Room("allergies") |->
                   [patients[o] EXCEPT !.allergies = Append(@, "x")]])

\* findById, then findByIdAndDelete
DeletePatient(s) ==
  /\ CanStart(s)
  /\ ops' = ops + 1
  /\ \E oid \in DOMAIN patients \cup gone \cup {"p9"} :
       IF oid \notin DOMAIN patients
       THEN /\ resp' = Answer("deletePatient", 404, "Patient not found")
            /\ UNCHANGED <<patients, gone>>
       ELSE /\ patients' = [o \in DOMAIN patients \ {oid} |-> patients[o]]
            /\ gone' = gone \cup {oid}
            /\ resp' = Answer("deletePatient", 200,
                              "Patient profile deleted successfully")
  /\ UNCHANGED <<doctors, appts, req, run, users>>

\* -------------------------------------------------------- DoctorController
\* `DOC${String(count + 1).padStart(6, '0')}`
MintDoctorId(count) == <<"DOC", count + 1>>

\* the unique index on doctorId
DoctorIdTaken(id) == \E d \in DOMAIN doctors : doctors[d].doctorId = id

\* Doctor.create / profile.save() of register: the pre-save hook sends
\* countDocuments()
CreateDoctorCount(s) ==
  /\ CanStart(s)
  /\ Cardinality(DOMAIN doctors)
       + Cardinality({t \in Slots : req[t].op = "createDoctor"}) < MaxDoctors
  /\ ops' = ops + 1
  /\ \E user \in {u \in Users : u.role = "doctor"}, body \in DoctorBodies :
       IF body.consultationFee = NoFee
       THEN /\ resp' = Answer("createDoctor", 400, "Validation failed")
            /\ UNCHANGED req
       ELSE /\ req' = [req EXCEPT ![s] =
                 [Idle EXCEPT !.op = "createDoctor", !.pc = "count",
                              !.user = user,
                              !.doc.fees.consultationFee = body.consultationFee,
                              !.notes = IF body.availability = NoList
                                        THEN None ELSE body.availability[1]]]
            /\ Silent
  /\ UNCHANGED <<doctors, patients, gone, appts, run, users>>

\* countDocuments() answers: the hook mints the id, the insert is sent
CreateDoctorMint(s) ==
  /\ req[s].op = "createDoctor" /\ req[s].pc = "count"
  /\ req' = [req EXCEPT ![s].pc = "insert",
                        ![s].ref = Cardinality(DOMAIN doctors)]
  /\ Silent
  /\ UNCHANGED <<doctors, patients, gone, appts, ops, run, users>>

\* the insert answers: duplicate key error, or the document is stored
CreateDoctorInsert(s) ==
  /\ req[s].op = "createDoctor" /\ req[s].pc = "insert"
  /\ IF DoctorIdTaken(MintDoctorId(req[s].ref))
     THEN /\ Respond(s, 409, "doctorId already exists", NoDoc)
          /\ UNCHANGED doctors
     ELSE /\ doctors' = WithDoc(doctors, DoctorOids[Cardinality(DOMAIN doctors) + 1],
                           [user |-> req[s].user._id,
                            doctorId |-> MintDoctorId(req[s].ref),
                            consultationFee |-> req[s].doc.fees.consultationFee,
                            availability |-> IF req[s].notes = None
                                             THEN <<>> ELSE <<req[s].notes>>])
          /\ Respond(s, 201, "Doctor profile created successfully", NoDoc)
  /\ Finish(s)
  /\ UNCHANGED <<patients, gone, appts, ops, run, users>>

\* the assignments of updateDoctor
AssignDoctor(doc, body) ==
  [doc EXCEPT
     !.consultationFee =
        IF body.consultationFee # NoFee THEN body.consultationFee ELSE @,
     !.availability = IF body.availability # NoList THEN body.availability ELSE @]

\* the handlers that load one Doctor document, change it and save it
DoctorChange(s, op, message, changed) ==
  /\ CanStart(s)
  /\ ops' = ops + 1
  /\ \E oid \in DOMAIN doctors \cup {"d9"} :
       IF oid \notin DOMAIN doctors
       THEN /\ resp' = Answer(op, 404, "Doctor not found")
            /\ UNCHANGED doctors
       ELSE /\ doctors' = [doctors EXCEPT ![oid] = changed[oid]]
            /\ resp' = Answer(op, 200, message)
  /\ UNCHANGED <<patients, gone, appts, req, run, users>>

UpdateDoctor(s) ==
  \E body \in DoctorBodies :
    DoctorChange(s, "updateDoctor", "Doctor profile updated successfully",
                 [o \in DOMAIN doctors |-> AssignDoctor(doctors[o], body)])

UpdateAvailability(s) ==
  \E availability \in {<<>>, <<"Friday">>} :
    DoctorChange(s, "updateAvailability",
                 "Doctor availability updated successfully",
                 [o \in DOMAIN doctors |->
                    [doctors[o] EXCEPT !.availability = availability]])

\* ------------------------------------------- loadResourceAndCheckOwnership
\* the routes of the patient router behind loadResourceAndCheckOwnership(Patient)
GuardedRoutes ==
  {"getPatientById", "updatePatient", "deletePatient", "ofPatient",
   "getMedicalHistory", "addMedicalHistory", "addAllergy"}

\* mutant: any identity with role patient passes
AuthorizeOwnerOrAdmin_AnyPatient(user, resource) ==
  user.role = "admin" \/ user.role = "patient"

\* next() is called: admin, or resource.user is the acting identity
AuthorizeOwnerOrAdmin(user, resource) ==
  user.role = "admin" \/ resource.user = user._id

\* what the middleware throws, NoResp when it calls next()
GuardReject(user, id) ==
  IF id \notin DOMAIN patients
  THEN Response(404, "Resource not found not found", NoDoc)
  ELSE IF ~AuthorizeOwnerOrAdmin(user, patients[id])
  THEN Response(403, "Access denied. You can only access your own resources", NoDoc)
  ELSE NoResp

\* the lists the add routes append to
ListOf(route) ==
  IF route = "addMedicalHistory" THEN "medicalHistory" ELSE "allergies"

\* a request arrives on a guarded route: Model.findById(req.params.id), then
\* the ownership check; the handler is next when neither throws
LoadResourceAndCheckOwnership(s) ==
  /\ CanStart(s)
  /\ ops' = ops + 1
  /\ \E user \in Users, route \in GuardedRoutes,
        id \in DOMAIN patients \cup gone \cup {"p9"} :
       LET to == [Idle EXCEPT !.op = route, !.user = user, !.id = id]
       IN /\ (route \in {"addMedicalHistory", "addAllergy"}
                /\ id \in DOMAIN patients) =>
                Len(patients[id][ListOf(route)])
                  + Cardinality({t \in Slots : req[t].op = route /\ req[t].id = id})
                    < MaxEntries
          /\ IF GuardReject(user, id) # NoResp
             THEN /\ resp' = [GuardReject(user, id) EXCEPT !.to = to]
                  /\ UNCHANGED req
             ELSE /\ req' = [req EXCEPT ![s] = [to EXCEPT !.pc = "handler"]]
                  /\ Silent
  /\ UNCHANGED <<doctors, patients, gone, appts, run, users>>

\* the handlers behind the guard that load the Patient document again, and
\* read it or change and save it; changed: the document each stored _id
\* would be saved as
PatientHandler(s, op, message, code, changed) ==
  /\ req[s].op = op /\ req[s].pc = "handler"
  /\ IF req[s].id \notin DOMAIN patients
     THEN /\ Respond(s, 404, "Patient not found", NoDoc)
          /\ UNCHANGED patients
     ELSE /\ patients' = [patients EXCEPT ![req[s].id] = changed[req[s].id]]
          /\ Respond(s, code, message, NoDoc)
  /\ Finish(s)
  /\ UNCHANGED <<doctors, gone, appts, ops, run, users>>

GuardedGetPatientById(s) ==
  PatientHandler(s, "getPatientById", "Patient retrieved successfully", 200,
                 patients)

GuardedGetMedicalHistory(s) ==
  PatientHandler(s, "getMedicalHistory",
                 "Medical history retrieved successfully", 200, patients)

GuardedUpdatePatient(s) ==
  \E body \in PatientBodies :
    PatientHandler(s, "updatePatient", "Patient profile updated successfully", 200,
                   [o \in DOMAIN patients |-> AssignPatient(patients[o], body)])

GuardedAddMedicalHistory(s) ==
  PatientHandler(s, "addMedicalHistory",
                 "Medical history entry added successfully", 201,
                 [o \in DOMAIN patients |->
                    [patients[o] EXCEPT !.medicalHistory = Append(@, "h")]])

GuardedAddAllergy(s) ==
  PatientHandler(s, "addAllergy", "Allergy added successfully", 201,
                 [o \in DOMAIN patients |->
                    [patients[o] EXCEPT !.allergies = Append(@, "x")]])

\* findById, then findByIdAndDelete
GuardedDeletePatient(s) ==
  /\ req[s].op = "deletePatient" /\ req[s].pc = "handler"
  /\ IF req[s].id \notin DOMAIN patients
     THEN /\ Respond(s, 404, "Patient not found", NoDoc)
          /\ UNCHANGED <<patients, gone>>
     ELSE /\ patients' = [o \in DOMAIN patients \ {req[s].id} |-> patients[o]]
          /\ gone' = gone \cup {req[s].id}
          /\ Respond(s, 200, "Patient profile deleted successfully", NoDoc)
  /\ Finish(s)
  /\ UNCHANGED <<doctors, appts, ops, run, users>>

\* getPatientAppointments behind the guard, up to its find; ListCount ends it
GuardedPatientAppointments(s) ==
  /\ req[s].op = "ofPatient" /\ req[s].pc = "handler"
  /\ \E status \in StatusFilters :
       LET q == [NoQuery EXCEPT !.who = req[s].id, !.status = status]
       IN \E l \in Found("ofPatient", q) :
            req' = [req EXCEPT ![s].pc = "count", ![s].query = q, ![s].list = l]
  /\ Silent
  /\ UNCHANGED <<doctors, patients, gone, appts, ops, run, users>>

\* ---------------------------------------------------------- AuthController
EmailTaken(email) == \E u \in DOMAIN users : users[u].email = email

NewUserOid == UserOids[Cardinality(DOMAIN users) - Cardinality(DOMAIN Users0) + 1]

\* POST /register arrives: User.findOne({ email }) is sent
RegisterBegin(s) ==
  /\ CanStart(s)
  /\ ops' = ops + 1
  /\ \E email \in RegEmails, role \in RegRoles :
       req' = [req EXCEPT ![s] =
                 [Idle EXCEPT !.op = "register", !.pc = "findUser",
                              !.email = email, !.user.role = role]]
  /\ Silent
  /\ UNCHANGED <<doctors, patients, gone, appts, run, users>>

\* User.findOne answers: 409, or User.create is sent
RegisterFindUser(s) ==
  /\ req[s].op = "register" /\ req[s].pc = "findUser"
  /\ IF EmailTaken(req[s].email)
     THEN /\ Respond(s, 409, "User with this email already exists", NoDoc)
          /\ Finish(s)
     ELSE /\ req' = [req EXCEPT ![s].pc = "createUser"]
          /\ Silent
  /\ UNCHANGED <<doctors, patients, gone, appts, ops, run, users>>

\* User.create answers: duplicate key error of the unique email, or the
\* document is stored; a patient or a doctor goes on to profile.save(), whose
\* pre-save hook sends countDocuments()
RegisterCreateUser(s) ==
  /\ req[s].op = "register" /\ req[s].pc = "createUser"
  /\ IF EmailTaken(req[s].email)
     THEN /\ Respond(s, 409, "email already exists", NoDoc)
          /\ Finish(s)
          /\ UNCHANGED users
     ELSE /\ users' = WithDoc(users, NewUserOid,
                         [email |-> req[s].email, role |-> req[s].user.role])
          /\ IF req[s].user.role \in {"patient", "doctor"}
             THEN /\ req' = [req EXCEPT ![s].pc = "count",
                                        ![s].user._id = NewUserOid]
                  /\ Silent
             ELSE /\ resp' = [Response(201, "User registered successfully", NoDoc)
                               EXCEPT !.to = [req[s] EXCEPT !.user._id = NewUserOid]]
                  /\ Finish(s)
  /\ UNCHANGED <<doctors, patients, gone, appts, ops, run>>

\* countDocuments() answers: the hook mints the id, the insert is sent
RegisterCount(s) ==
  /\ req[s].op = "register" /\ req[s].pc = "count"
  /\ req' = [req EXCEPT
               ![s].pc = "insert",
               ![s].ref = IF req[s].user.role = "patient"
                          THEN Cardinality(DOMAIN patients)
                          ELSE Cardinality(DOMAIN doctors)]
  /\ Silent
  /\ UNCHANGED <<doctors, patients, gone, appts, ops, run, users>>

\* the insert of the profile answers: duplicate key error, or the profile is
\* stored and the tokens and the 201 are sent
RegisterInsert(s) ==
  /\ req[s].op = "register" /\ req[s].pc = "insert"
  /\ IF req[s].user.role = "patient"
     THEN /\ IF PatientIdTaken(MintPatientId(req[s].ref))
             THEN /\ Respond(s, 409, "patientId already exists", NoDoc)
                  /\ UNCHANGED patients
             ELSE /\ patients' = WithDoc(patients, NewPatientOid,
                                    [user |-> req[s].user._id,
                                     patientId |-> MintPatientId(req[s].ref),
                                     phoneNumber |-> "+1234567890",
                                     medicalHistory |-> <<>>, allergies |-> <<>>])
                  /\ Respond(s, 201, "User registered successfully", NoDoc)
          /\ UNCHANGED doctors
     ELSE /\ IF DoctorIdTaken(MintDoctorId(req[s].ref))
             THEN /\ Respond(s, 409, "doctorId already exists", NoDoc)
                  /\ UNCHANGED doctors
             ELSE /\ doctors' = WithDoc(doctors,
                                   DoctorOids[Cardinality(DOMAIN doctors) + 1],
                                   [user |-> req[s].user._id,
                                    doctorId |-> MintDoctorId(req[s].ref),
                                    consultationFee |-> 100,
                                    availability |-> <<"Monday">>])
                  /\ Respond(s, 201, "User registered successfully", NoDoc)
          /\ UNCHANGED patients
  /\ Finish(s)
  /\ UNCHANGED <<gone, appts, ops, run, users>>

\* ------------------------------------------------------------ specification
Next ==
  \E s \in Slots :
    \/ BookBegin(s)
    \/ BookFindConflict(s)
    \/ BookCount(s)
    \/ BookInsert(s)
    \/ UpdateAppointmentStatus(s)
    \/ GetById(s)

Spec == Init /\ [][Next]_vars

SeqSpec == SeqInit /\ [][Next]_vars

FaultSpec == FaultInit /\ [][Next]_vars

\* the profile routes, two handlers interleaved
ProfileInit ==
  Started /\ run = [slots |-> Slots, maxOps |-> MaxProfileOps, faults |-> FALSE, tz |-> 0]

ProfileNext ==
  \E s \in Slots :
    \/ CreatePatientCount(s)
    \/ CreatePatientMint(s)
    \/ CreatePatientInsert(s)
    \/ UpdatePatient(s)
    \/ AddMedicalHistory(s)
    \/ AddAllergy(s)
    \/ DeletePatient(s)
    \/ CreateDoctorCount(s)
    \/ CreateDoctorMint(s)
    \/ CreateDoctorInsert(s)
    \/ UpdateDoctor(s)
    \/ UpdateAvailability(s)

ProfileSpec == ProfileInit /\ [][ProfileNext]_vars

\* the appointment routes with the listings, one request at a time, in each
\* zone of the server
ListInit ==
  /\ Started
  /\ run \in {[slots |-> {1}, maxOps |-> MaxListOps, faults |-> FALSE,
               tz |-> z] : z \in TzHours}

\* the handlers that write appointments, and the listings
ListNext ==
  \E s \in Slots :
    \/ BookBegin(s)
    \/ BookFindConflict(s)
    \/ BookCount(s)
    \/ BookInsert(s)
    \/ UpdateAppointmentStatus(s)
    \/ GetPatientAppointments(s)
    \/ GetDoctorAppointments(s)
    \/ MyAppointmentsRoute(s)
    \/ PatientAppointments(s)
    \/ DoctorAppointments(s)
    \/ ListCount(s)

ListSpec == ListInit /\ [][ListNext]_vars

\* the store after n bookings of p1, one a day, the later days booked first:
\* the first with doctor d2, the others with doctor d1
Booked(n) ==
  [i \in 1..n |->
     PreSave(NewAppointment([role |-> "patient", profile |-> "p1"],
                            [SampleBody EXCEPT
                               !.doctorId = IF i = 1 THEN "d2" ELSE "d1",
                               !.appointmentDate = MaxBooked + 1 - i],
                            Doctors0[IF i = 1 THEN "d2" ELSE "d1"]),
             i - 1)]

\* the status update and the notifications, one request at a time, on a
\* store of up to MaxBooked bookings
NotifyInit ==
  /\ doctors = Doctors0
  /\ patients = Patients0
  /\ gone = {}
  /\ users = Users0
  /\ appts \in {Booked(n) : n \in 0..MaxBooked}
  /\ req = [s \in Slots |-> Idle]
  /\ resp = NoResp
  /\ ops = 0
  /\ run = [slots |-> {1}, maxOps |-> MaxNotifyOps, faults |-> FALSE, tz |-> 0]

NotifyNext ==
  \E s \in Slots :
    \/ UpdateAppointmentStatus(s)
    \/ GetDoctorNotifications(s)
    \/ NotificationsRoute(s)

NotifySpec == NotifyInit /\ [][NotifyNext]_vars

\* the store after two bookings of p1 for the same instant, with d1 and d2
Tied ==
  [i \in 1..2 |->
     PreSave(NewAppointment([role |-> "patient", profile |-> "p1"],
                            [SampleBody EXCEPT
                               !.doctorId = IF i = 1 THEN "d1" ELSE "d2"],
                            Doctors0[IF i = 1 THEN "d1" ELSE "d2"]),
             i - 1)]

\* the reads of the appointment routes, interleaved, on a store that no
\* request writes
ReadInit ==
  /\ doctors = Doctors0
  /\ patients = Patients0
  /\ gone = {}
  /\ users = Users0
  /\ appts \in {SubSeq(Tied, 1, n) : n \in 0..2}
  /\ req = [s \in Slots |-> Idle]
  /\ resp = NoResp
  /\ ops = 0
  /\ run = [slots |-> Slots, maxOps |-> MaxReadOps, faults |-> FALSE, tz |-> 0]

ReadNext ==
  \E s \in Slots :
    \/ GetById(s)
    \/ GetPatientAppointments(s)
    \/ GetDoctorAppointments(s)
    \/ ListCount(s)
    \/ GetDoctorNotifications(s)

ReadSpec == ReadInit /\ [][ReadNext]_vars

\* the appointment writes together with the profile changes they read from,
\* one request at a time
ClinicInit ==
  Started /\ run = [slots |-> {1}, maxOps |-> MaxClinicOps, faults |-> FALSE, tz |-> 0]

ClinicNext ==
  \E s \in Slots :
    \/ BookBegin(s)
    \/ BookFindConflict(s)
    \/ BookCount(s)
    \/ BookInsert(s)
    \/ UpdateAppointmentStatus(s)
    \/ UpdateDoctor(s)
    \/ UpdateAvailability(s)
    \/ DeletePatient(s)

ClinicSpec == ClinicInit /\ [][ClinicNext]_vars

\* the registrations, two handlers interleaved
RegInit ==
  Started /\ run = [slots |-> Slots, maxOps |-> MaxRegOps, faults |-> FALSE, tz |-> 0]

RegNext ==
  \E s \in Slots :
    \/ RegisterBegin(s)
    \/ RegisterFindUser(s)
    \/ RegisterCreateUser(s)
    \/ RegisterCount(s)
    \/ RegisterInsert(s)

RegSpec == RegInit /\ [][RegNext]_vars

\* two stored patients, each the profile of one patient identity
TwoPatients ==
  [p \in {"p1", "p2"} |->
     [user |-> IF p = "p1" THEN "u1" ELSE "u2",
      patientId |-> <<"PAT", IF p = "p1" THEN 1 ELSE 2>>, phoneNumber |-> "a",
      medicalHistory |-> <<>>, allergies |-> <<>>]]

\* the guarded patient routes, two requests interleaved
GuardInit ==
  /\ doctors = Doctors0
  /\ patients = TwoPatients
  /\ gone = {}
  /\ users = Users0
  /\ appts = <<>>
  /\ req = [s \in Slots |-> Idle]
  /\ resp = NoResp
  /\ ops = 0
  /\ run = [slots |-> Slots, maxOps |-> MaxGuardOps, faults |-> FALSE, tz |-> 0]

GuardNext ==
  \E s \in Slots :
    \/ LoadResourceAndCheckOwnership(s)
    \/ GuardedGetPatientById(s)
    \/ GuardedGetMedicalHistory(s)
    \/ GuardedUpdatePatient(s)
    \/ GuardedAddMedicalHistory(s)
    \/ GuardedAddAllergy(s)
    \/ GuardedDeletePatient(s)
    \/ GuardedPatientAppointments(s)
    \/ ListCount(s)

GuardSpec == GuardInit /\ [][GuardNext]_vars

\* =================================================================== claims
Refs == 1..Len(appts)

Inactive == {"cancelled", "no-show"}
Terminal == {"completed", "cancelled", "no-show"}

HalfHourMs == 1800000

\* the instants of a and b are at most 30 minutes apart
Within30(a, b) ==
  /\ a.appointmentDate - b.appointmentDate =< HalfHourMs
  /\ b.appointmentDate - a.appointmentDate =< HalfHourMs

\* two stored appointments of one doctor, both active, within 30 minutes
DoubleBooked(i, j) ==
  /\ i # j
  /\ appts[i].doctor = appts[j].doctor
  /\ appts[i].status \notin Inactive
  /\ appts[j].status \notin Inactive
  /\ Within30(appts[i], appts[j])

\* slot s finishes its handler in this step
Finishes(s) == req[s].pc # "idle" /\ req'[s].pc = "idle"

\* C1 (as stated): with requests handled one after the other, no two active
\* appointments of the same doctor are ever within 30 minutes of each other.
C1_NoDoubleBooking == \A i, j \in Refs : ~DoubleBooked(i, j)

\* C2: a booking that has passed the conflict query is never answered
\* "Doctor is not available": its insert stores the document whatever the
\* collection holds by then, unless the unique index rejects its id; so two
\* interleaved bookings can both pass the query and both be stored.
C2_InsertIgnoresConflicts ==
  [][\A s \in Slots :
       (req[s].op = "book" /\ req[s].pc = "insert" /\ Finishes(s)) =>
          IF \E i \in Refs : appts[i].appointmentId = req[s].doc.appointmentId
          THEN appts' = appts /\ resp'.code = 409
          ELSE appts' = Append(appts, req[s].doc) /\ resp'.code = 201]_vars

\* C2 witness: two appointments of one doctor within 30 minutes, both still
\* scheduled, the later one just stored with a 201
C2_Witness ==
  /\ \E i, j \in Refs :
       /\ DoubleBooked(i, j)
       /\ appts[i].status = "scheduled" /\ appts[j].status = "scheduled"
  /\ resp.code = 201

\* C3: every stored appointment has totalAmount = consultationFee +
\* additionalCharges.
C3_TotalAmount ==
  \A i \in Refs :
    appts[i].fees.totalAmount =
      appts[i].fees.consultationFee + appts[i].fees.additionalCharges

\* C3 witness: an appointment saved again by a status update, with a fee
C3_Witness ==
  /\ resp.code = 200 /\ resp.message = "Appointment status updated successfully"
  /\ \E i \in Refs :
       /\ appts[i].status = "completed"
       /\ appts[i].fees.totalAmount = 50

\* C4 (as stated): a status in {completed, cancelled, no-show} never changes.
C4_TerminalStays ==
  [][\A i \in Refs :
       appts[i].status \in Terminal => appts'[i].status = appts[i].status]_vars

\* the acting identity is the patient or the doctor the appointment refers to
Owns(user, a) ==
  \/ user.role = "patient" /\ user.profile = a.patient
  \/ user.role = "doctor" /\ user.profile = a.doctor

Targets == {"confirmed", "in-progress", "completed", "cancelled", "no-show"}

\* C5: an update by the appointment's own patient or doctor to any of the five
\* target statuses passes every early return whatever the current status is,
\* and its save answers 200 and leaves the appointment in the target status.
C5_OwnerUpdates ==
  /\ [](\A ref \in Refs, user \in Users, status \in Targets :
          Owns(user, appts[ref]) => UpdateReject(user, ref, status) = NoResp)
  /\ [][resp'.to.op = "update" =>
          /\ resp'.code = 200
          /\ appts'[resp'.to.ref].status = resp'.to.status]_vars

\* C5 witness: the owning patient's update of a cancelled appointment to
\* confirmed has been saved
C5_Witness ==
  /\ resp.code = 200 /\ resp.to.op = "update"
  /\ resp.to.user.role = "patient"
  /\ resp.to.was = "cancelled" /\ resp.to.status = "confirmed"
  /\ appts[resp.to.ref].patient = resp.to.user.profile
  /\ appts[resp.to.ref].status = "confirmed"

\* C6: an update whose status is scheduled, or any value outside the five
\* targets, is answered 400 and stores nothing; no appointment that has left
\* scheduled is scheduled again.
C6_NoReset ==
  /\ [](\A ref \in 1..MaxAppts, user \in Users, status \in BodyStatuses \ Targets :
          UpdateReject(user, ref, status).code = 400)
  /\ [][/\ resp'.code = 400 => appts' = appts
        /\ \A i \in Refs :
             appts[i].status # "scheduled" => appts'[i].status # "scheduled"]_vars

\* C6 witness: an update is answered 400 while an appointment has left scheduled
C6_Witness ==
  /\ resp.code = 400 /\ resp.message = "Invalid appointment status"
  /\ \E i \in Refs : appts[i].status # "scheduled"

Blocks(a, doctorId, t) ==
  /\ a.doctor = doctorId
  /\ a.status \notin Inactive
  /\ a.appointmentDate - t =< HalfHourMs
  /\ t - a.appointmentDate =< HalfHourMs

\* the conflict query of the booking on slot s answers in this step
QueryAnswers(s) ==
  req[s].op = "book" /\ req[s].pc = "findConflict" /\ req'[s] # req[s]

\* C9: a booking that has passed the field and profile checks is answered 409
\* "Doctor is not available at this time" and never stores a document when the
\* store holds an active appointment of the same doctor at most 30 minutes
\* (30 included) before or after the requested instant.
C9_ConflictRejected ==
  [][\A s \in Slots :
       (/\ QueryAnswers(s)
        /\ \E i \in Refs :
             Blocks(appts[i], req[s].doc.doctor, req[s].doc.appointmentDate)) =>
          /\ resp'.code = 409
          /\ resp'.message = "Doctor is not available at this time"
          /\ appts' = appts
          /\ req'[s] = Idle]_vars

\* C9 witness: a booking exactly 30 minutes from an active appointment of the
\* same doctor has been answered 409
C9_Witness ==
  /\ resp.code = 409 /\ resp.message = "Doctor is not available at this time"
  /\ \E i \in Refs :
       /\ appts[i].doctor = resp.to.doc.doctor
       /\ appts[i].status \notin Inactive
       /\ resp.to.doc.appointmentDate - appts[i].appointmentDate = HalfHourMs

\* C10: a booking with all required fields, an existing doctor and an existing
\* patient profile passes the early returns, and when no active appointment of
\* that doctor lies within 30 minutes of the requested instant it goes on to
\* the insert, which stores it and answers 201.
C10_FreeSlotBooks ==
  /\ [](\A user \in Users, body \in FullBodies :
          (body.doctorId \in DOMAIN doctors /\ user.profile \in DOMAIN patients) =>
             BookReject(user, body) = NoResp)
  /\ [][\A s \in Slots :
          (/\ req[s].op = "book" /\ req[s].pc # "idle" /\ req'[s] # req[s]
           /\ ~\E i \in Refs :
                 Blocks(appts[i], req[s].doc.doctor, req[s].doc.appointmentDate)) =>
             IF req[s].pc = "insert"
             THEN resp'.code = 201 /\ appts' = Append(appts, req[s].doc)
             ELSE req'[s].pc \in {"count", "insert"} /\ appts' = appts]_vars

\* C11: a booking with all required fields is answered 404 "Doctor not found"
\* when doctorId matches no Doctor document, whoever asks, and 404 "Patient
\* profile not found" when the doctor exists and the acting identity's profile
\* matches no Patient document; a 404 stores nothing, and only identities with
\* a Patient profile ever get a booking past these checks or into the store.
C11_NotFound ==
  /\ [](/\ \A user \in Users, d \in DoctorIds \cup {"d9"} :
             LET body == [SampleBody EXCEPT !.doctorId = d]
                 r == BookReject(user, body)
             IN IF body.doctorId \notin DOMAIN doctors
                THEN r.code = 404 /\ r.message = "Doctor not found"
                ELSE user.profile \notin DOMAIN patients =>
                       r.code = 404 /\ r.message = "Patient profile not found"
        /\ \A s \in Slots :
             req[s].op = "book" =>
                req[s].user.role = "patient" /\ req[s].user.profile \in DOMAIN patients
        /\ \A i \in Refs :
             appts[i].patient \in DOMAIN patients /\ appts[i].doctor \in DOMAIN doctors)
  /\ [][resp'.code = 404 => appts' = appts]_vars

\* C11 witness: with a booking stored, an identity without a Patient profile
\* asked for a doctor that exists and was told its profile is missing
C11_Witness ==
  /\ resp.code = 404
  /\ resp.message = "Patient profile not found"
  /\ resp.data = NoDoc
  /\ Len(appts) = 1

\* a document is added to the Appointment collection in this step
Stored == Len(appts') = Len(appts) + 1

\* the document added in this step
NewDoc == appts'[Len(appts')]

\* C12: every appointment a booking stores has status scheduled,
\* additionalCharges 0 and the consultationFee of its doctor's profile, 0
\* included; 100 only when the profile has no fee.
C12_FeeOfDoctor ==
  [][Stored =>
       /\ NewDoc.status = "scheduled"
       /\ NewDoc.fees.additionalCharges = 0
       /\ NewDoc.fees.consultationFee =
            IF doctors[NewDoc.doctor].consultationFee = NoFee
            THEN 100 ELSE doctors[NewDoc.doctor].consultationFee]_vars

\* the step belongs to the booking on slot s
BookStep(s) ==
  req'[s] # req[s] /\ (req[s].op = "book" \/ req'[s].op = "book")

\* C13: a step of a booking changes no Doctor and no Patient document; the
\* step that answers 201 appends one document, the one the handler built, and
\* leaves every stored appointment as it was; the other steps leave the
\* Appointment collection alone.
C13_BookFrame ==
  [][\A s \in Slots :
       BookStep(s) =>
          /\ doctors' = doctors
          /\ patients' = patients
          /\ IF resp'.code = 201
             THEN /\ Len(appts') = Len(appts) + 1
                  /\ \A i \in Refs : appts'[i] = appts[i]
                  /\ appts'[Len(appts')] = req[s].doc
             ELSE appts' = appts]_vars

\* C13 witness: a second booking has been stored beside an appointment that
\* was confirmed with notes
C13_Witness ==
  /\ resp.code = 201 /\ Len(appts) = 2
  /\ appts[1].status = "confirmed" /\ appts[1].notes = "n"
  /\ appts[2] = resp.data

\* C14: a step that answers with an error leaves the Appointment collection
\* as it was, whatever call the error came from; a step that answers 201 has
\* stored the document it returns, and one that answers 200 to an update has
\* stored the new status.
C14_AllOrNothing ==
  [][/\ resp'.code >= 400 => appts' = appts
     /\ resp'.code = 201 => Stored /\ NewDoc = resp'.data
     /\ (resp'.code = 200 /\ resp'.to.op = "update") =>
           appts'[resp'.to.ref].status = resp'.to.status]_vars

\* C15: no step takes a document out of the Appointment collection, and a
\* document enters it only in the step of a booking that answers 201.
C15_OnlyGrows ==
  [][/\ Len(appts') >= Len(appts)
     /\ \A i \in Refs :
          /\ appts'[i].appointmentId = appts[i].appointmentId
          /\ appts'[i].patient = appts[i].patient
          /\ appts'[i].doctor = appts[i].doctor
     /\ Len(appts') > Len(appts) =>
          /\ Stored
          /\ resp'.code = 201 /\ resp'.to.op = "book"
          /\ NewDoc = resp'.data]_vars

\* C16: a stored appointment has an appointmentId from the step that stores
\* it, no later step changes it, and no two stored appointments have the same.
C16_IdOnce ==
  /\ [](\A i, j \in Refs :
          /\ appts[i].appointmentId # <<>>
          /\ i # j => appts[i].appointmentId # appts[j].appointmentId)
  /\ [][\A i \in Refs : appts'[i].appointmentId = appts[i].appointmentId]_vars

\* C16 witness: two appointments are stored with different ids, and the
\* first has gone through a later save
C16_Witness ==
  /\ Len(appts) = 2
  /\ appts[1].status # "scheduled"
  /\ appts[1].appointmentId = <<"APT", 1>>
  /\ appts[2].appointmentId = <<"APT", 2>>
  /\ resp.code = 200 /\ resp.to.op = "update" /\ resp.to.ref = 1

\* C17: every stored Patient has a patientId and every stored Doctor a
\* doctorId, no two stored profiles of a kind have the same, and no step
\* changes the id of a profile that stays stored.
C17_ProfileIds ==
  /\ [](/\ \A p, q \in DOMAIN patients :
             /\ patients[p].patientId # <<>>
             /\ p # q => patients[p].patientId # patients[q].patientId
        /\ \A d, e \in DOMAIN doctors :
             /\ doctors[d].doctorId # <<>>
             /\ d # e => doctors[d].doctorId # doctors[e].doctorId)
  /\ [][/\ \A p \in DOMAIN patients \cap DOMAIN patients' :
             patients'[p].patientId = patients[p].patientId
        /\ \A d \in DOMAIN doctors \cap DOMAIN doctors' :
             doctors'[d].doctorId = doctors[d].doctorId]_vars

\* C17 witness: after a deletion a creation minted the id of a stored patient
\* and was refused; the stored patient holds that id
C17_Witness ==
  /\ gone # {}
  /\ resp.code = 409 /\ resp.message = "patientId already exists"
  /\ \E p \in DOMAIN patients : patients[p].patientId = <<"PAT", 2>>

\* C18: a successful updateAppointmentStatus sets the status of the appointment
\* to the requested one, stores the notes of the body when it carries notes
\* and keeps the stored notes otherwise (stored notes change only when the
\* body carries notes), and leaves patient, doctor, instant, duration,
\* consultationFee, additionalCharges and appointmentId of that appointment,
\* every other appointment and the number of appointments unchanged
C18_UpdateFrame ==
  [][resp'.code = 200 /\ resp'.to.op = "update" =>
       LET r == resp'.to.ref
       IN /\ Len(appts') = Len(appts)
          /\ appts'[r].status = resp'.to.status
          /\ resp'.to.notes \notin {None, ""} => appts'[r].notes = resp'.to.notes
          /\ resp'.to.notes = None => appts'[r].notes = appts[r].notes
          /\ appts'[r].notes # appts[r].notes => resp'.to.notes # None
          /\ appts'[r].patient = appts[r].patient
          /\ appts'[r].doctor = appts[r].doctor
          /\ appts'[r].appointmentDate = appts[r].appointmentDate
          /\ appts'[r].duration = appts[r].duration
          /\ appts'[r].fees.consultationFee = appts[r].fees.consultationFee
          /\ appts'[r].fees.additionalCharges = appts[r].fees.additionalCharges
          /\ appts'[r].appointmentId = appts[r].appointmentId
          /\ \A i \in Refs \ {r} : appts'[i] = appts[i]]_vars

\* C18 witness: an update without notes succeeded on an appointment that
\* holds notes of an earlier update, and the notes are still there
C18_Witness ==
  /\ resp.code = 200
  /\ resp.to.op = "update"
  /\ resp.to.notes = None
  /\ resp.to.status = "cancelled"
  /\ appts[resp.to.ref].status = "cancelled"
  /\ appts[resp.to.ref].notes = "n"

\* a listing response, and the day of an instant on the server's wall clock
Listed == resp.code = 200 /\ resp.to.op \in ListOps
DayOf(ms) == ms \div DayMs

\* C19: a doctor listing returns only appointments of the doctor listed that
\* have the status of the query when it has one and, when it has a date, an
\* instant on that calendar day, in ascending order of instant; a patient
\* listing returns only appointments of the patient listed that have the
\* status of the query when it has one, in descending order of instant
C19_ListFilters ==
  Listed =>
    LET q == resp.to.query
        l == resp.list
    IN /\ \A k \in DOMAIN l :
            /\ IF resp.to.op \in DoctorLists
               THEN l[k].doctor = q.who
               ELSE l[k].patient = q.who
            /\ q.status # None => l[k].status = q.status
            /\ resp.to.op \in DoctorLists /\ q.date # NoDate =>
                 DayOf(l[k].appointmentDate) = q.date
       /\ \A j, k \in DOMAIN l :
            j < k => IF resp.to.op \in DoctorLists
                     THEN l[j].appointmentDate =< l[k].appointmentDate
                     ELSE l[j].appointmentDate >= l[k].appointmentDate

\* C20: for a query with page >= 1 and limit in 1..100 (or without them,
\* page 1 and limit 10), the records found are positions
\* (page - 1) * limit + 1 .. page * limit of the filtered appointments in
\* their sort order, at most limit of them; the total reported is the number
\* of appointments that match the filter, whatever the page; and the page
\* count reported is the least n with n * limit >= total.  (One request at a
\* time: the store a listing has read is the store of the state.)
C20_Pagination ==
  /\ \A s \in Slots :
       req[s].op \in ListOps /\ req[s].pc = "count" =>
         LET q == req[s].query
             l == req[s].list
             lo == (PageOf(q) - 1) * LimitOf(q)
         IN /\ Len(l) =< LimitOf(q)
            /\ \E f \in Orders(req[s].op, q) :
                 /\ \A k \in DOMAIN l : l[k] = appts[f[lo + k]]
                 /\ Len(l) = Cardinality({k \in DOMAIN f :
                                            k > lo /\ k =< lo + LimitOf(q)})
  /\ Listed =>
       LET q == resp.to.query
           total == Cardinality(Matching(resp.to.op, q))
           n == resp.pagination.pages
       IN /\ resp.list = resp.to.list
          /\ resp.pagination.total = total
          /\ \A p \in Pages :
               Cardinality(Matching(resp.to.op, [q EXCEPT !.page = p])) = total
          /\ n * LimitOf(q) >= total
          /\ n > 0 => (n - 1) * LimitOf(q) < total

\* C20 witness: two appointments match, and page 2 of limit 1 holds the
\* second of them: the earlier one, in a patient listing
C20_Witness ==
  /\ Listed
  /\ resp.to.op \in {"myPatient", "ofPatient"}
  /\ resp.to.query.page = 2
  /\ resp.to.query.limit = 1
  /\ resp.pagination.total = 2
  /\ resp.pagination.pages = 2
  /\ Len(resp.list) = 1
  /\ \E i \in Refs : appts[i].appointmentDate > resp.list[1].appointmentDate

\* the appointments a doctor's notifications may show, at the time now
Notifiable(who, now) ==
  {i \in Refs : /\ appts[i].doctor = who
                /\ appts[i].status = "scheduled"
                /\ DayOf(appts[i].appointmentDate) >= DayOf(now)}

\* C21: the notifications of a doctor hold only stored appointments of that
\* doctor whose status is scheduled (so none that a status update has moved
\* out of scheduled) and whose instant is on the current day or later, at
\* most 10 of them, in ascending order of instant, and none left out is
\* earlier than one shown
C21_Notifications ==
  resp.code = 200 /\ resp.to.op = "notify" =>
    LET l == resp.list
        N == Notifiable(resp.to.query.who, resp.to.query.now)
    IN /\ Len(l) =< 10
       /\ Len(l) = Cardinality(N) \/ (Len(l) = 10 /\ Cardinality(N) > 10)
       /\ \A k \in DOMAIN l : \E i \in N : appts[i] = l[k]
       /\ \A j, k \in DOMAIN l :
            j < k => /\ l[j].appointmentDate =< l[k].appointmentDate
                     /\ l[j] # l[k]
       /\ \A i \in N :
            (\A k \in DOMAIN l : appts[i] # l[k]) =>
               \A k \in DOMAIN l : l[k].appointmentDate =< appts[i].appointmentDate

\* C21 witness: eleven appointments could be shown and ten are, and an
\* appointment of the doctor that an update cancelled is not among them
C21_Witness ==
  /\ resp.code = 200
  /\ resp.to.op = "notify"
  /\ Len(resp.list) = 10
  /\ Cardinality(Notifiable(resp.to.query.who, resp.to.query.now)) = 11
  /\ \E i \in Refs : /\ appts[i].status = "cancelled"
                      /\ appts[i].doctor = resp.to.query.who

\* C22: the reads change no store, and two listings in flight with the same
\* query, on a store that has not changed between them, have found the same
\* records
C22_ReadsRepeat ==
  /\ [](\A s, t \in Slots :
          (/\ req[s].op \in ListOps /\ req[s].pc = "count"
           /\ req[t].op = req[s].op /\ req[t].pc = "count"
           /\ req[t].query = req[s].query) => req[t].list = req[s].list)
  /\ [][appts' = appts /\ doctors' = doctors /\ patients' = patients]_vars

\* l is a prefix of m
Prefix(l, m) == Len(l) =< Len(m) /\ SubSeq(m, 1, Len(l)) = l

\* C23: on every step the medicalHistory list a stored patient had is a
\* prefix of the list it has afterwards, and a successful addMedicalHistory
\* makes the list of one patient one entry longer
C23_AppendOnly ==
  [][/\ \A p \in DOMAIN patients \cap DOMAIN patients' :
          Prefix(patients[p].medicalHistory, patients'[p].medicalHistory)
     /\ resp'.code = 201 /\ resp'.to.op = "addMedicalHistory" =>
          \E p \in DOMAIN patients :
            /\ p \in DOMAIN patients'
            /\ Len(patients'[p].medicalHistory) =
                 Len(patients[p].medicalHistory) + 1]_vars

\* the doctors' store with the availability lists blanked
SansAvailability(store) ==
  [d \in DOMAIN store |-> [store[d] EXCEPT !.availability = <<>>]]

\* what a booking request is decided on: the early returns, the conflict query
\* and the document that would be saved
BookOutcome(user, body) ==
  <<BookReject(user, body),
    body.doctorId \in DOMAIN doctors /\ body.appointmentDate # NoDate
      /\ body.appointmentTime # NoTime
      /\ ConflictingAppointment(appts, body.doctorId,
            DateTimeMs(body.appointmentDate, body.appointmentTime)),
    IF body.doctorId \in DOMAIN doctors /\ body.appointmentDate # NoDate
         /\ body.appointmentTime # NoTime
    THEN NewAppointment(user, body, doctors[body.doctorId]) ELSE NoDoc>>

OutsideWindows(doc) ==
  ~Declares(doctors[doc.doctor].availability, doc.appointmentDate \div DayMs)

\* C24: across a step that changes nothing but availability lists, every
\* booking request is decided the same way before and after; and a booking in
\* flight for an instant outside every declared window of its doctor, with no
\* active appointment of that doctor within 30 minutes, goes on to the insert,
\* which stores it and answers 201.
C24_AvailabilityIgnored ==
  /\ [][(/\ doctors' # doctors /\ appts' = appts /\ patients' = patients
          /\ SansAvailability(doctors') = SansAvailability(doctors)) =>
            \A user \in Users, body \in BookBodies :
               BookOutcome(user, body)' = BookOutcome(user, body)]_vars
  /\ [][\A s \in Slots :
          (/\ req[s].op = "book" /\ req[s].pc # "idle" /\ req'[s] # req[s]
           /\ OutsideWindows(req[s].doc)
           /\ ~\E i \in Refs :
                 Blocks(appts[i], req[s].doc.doctor, req[s].doc.appointmentDate)) =>
             IF req[s].pc = "insert"
             THEN resp'.code = 201 /\ appts' = Append(appts, req[s].doc)
             ELSE req'[s].pc \in {"count", "insert"} /\ appts' = appts]_vars

\* C24 witness: a doctor's availability list was emptied and a booking with
\* that doctor has then been stored and answered 201
C24_Witness ==
  /\ resp.code = 201 /\ resp.to.op = "book"
  /\ doctors[resp.data.doctor].availability = <<>>
  /\ appts[Len(appts)] = resp.data

\* C25: every stored appointment references a Patient document and a Doctor
\* document that are in their collections.
C25_ReferencesExist ==
  \A i \in Refs :
    appts[i].patient \in DOMAIN patients /\ appts[i].doctor \in DOMAIN doctors

\* C26: the patientId that the pre-save hook mints for a new Patient document
\* is held by no stored Patient document at the moment it is minted, and no
\* creation is answered "patientId already exists".
C26_FreshPatientId ==
  [][/\ \A s \in Slots :
          (req[s].op = "createPatient" /\ req[s].pc = "count"
             /\ req'[s].pc = "insert") =>
            \A p \in DOMAIN patients :
               patients[p].patientId # MintPatientId(req'[s].ref)
     /\ resp'.message # "patientId already exists"]_vars

\* the documents of two bookings do not conflict with each other: different
\* doctors, or instants more than 30 minutes apart
Apart(a, b) ==
  \/ a.doctor # b.doctor
  \/ a.appointmentDate - b.appointmentDate > HalfHourMs
  \/ b.appointmentDate - a.appointmentDate > HalfHourMs

\* C27: two bookings in flight together that do not conflict with each other
\* have distinct appointmentIds once both have minted theirs, and the insert of
\* a booking that conflicts with no stored appointment is never refused for its
\* appointmentId: it stores the document and answers 201.
C27_InterleavedBookings ==
  /\ [](\A s, t \in Slots :
          (/\ s # t
           /\ req[s].op = "book" /\ req[s].pc = "insert"
           /\ req[t].op = "book" /\ req[t].pc = "insert"
           /\ Apart(req[s].doc, req[t].doc)) =>
             req[s].doc.appointmentId # req[t].doc.appointmentId)
  /\ [][\A s \in Slots :
          (/\ req[s].op = "book" /\ req[s].pc = "insert" /\ req'[s] # req[s]
           /\ ~\E i \in Refs :
                 Blocks(appts[i], req[s].doc.doctor, req[s].doc.appointmentDate)) =>
             /\ resp'.message # "appointmentId already exists"
             /\ resp'.code = 201
             /\ Len(appts') = Len(appts) + 1]_vars

\* C28: the fees of an appointment are those of its doctor when it is booked:
\* the step that stores it writes the doctor's consultation fee (100 when the
\* doctor has none) and the total, and no later step, the saves of updateDoctor
\* and updateAppointmentStatus included, changes the fees of a stored
\* appointment; a step that changes a Doctor document changes no appointment.
C28_FeeSnapshot ==
  [][/\ \A i \in Refs : appts'[i].fees = appts[i].fees
     /\ doctors' # doctors => appts' = appts
     /\ Len(appts') > Len(appts) =>
          LET new == appts'[Len(appts')]
          IN /\ new.fees.consultationFee =
                  FeeOrDefault(doctors[new.doctor].consultationFee)
             /\ new.fees.totalAmount = new.fees.consultationFee]_vars

\* C28 witness: an appointment was booked, its doctor's fee was then changed
\* to another amount, and a status update of the appointment has been saved
\* after that with the fees of the booking still stored
C28_Witness ==
  /\ resp.code = 200 /\ resp.to.op = "update"
  /\ appts[resp.to.ref].status # "scheduled"
  /\ doctors[appts[resp.to.ref].doctor].consultationFee = 70
  /\ appts[resp.to.ref].fees.consultationFee # 70
  /\ appts[resp.to.ref].fees.totalAmount # 70

\* the identities that register created in this behaviour
Registered == DOMAIN users \ DOMAIN Users0

\* the profiles of the role of identity u that reference it
ProfilesOf(u) ==
  IF users[u].role = "patient" THEN {p \in DOMAIN patients : patients[p].user = u}
  ELSE IF users[u].role = "doctor" THEN {d \in DOMAIN doctors : doctors[d].user = u}
  ELSE {}

\* C29: no two identities have the same email; a register with the email of
\* a stored identity is answered 409 and stores nothing; a register that is
\* answered anything but 201 leaves no identity of its own behind; and once no
\* register is in flight every registered patient or doctor identity has
\* exactly one profile of its role.
C29_Register ==
  /\ [](/\ \A u, v \in DOMAIN users : u # v => users[u].email # users[v].email
        /\ (\A s \in Slots : req[s].op # "register") =>
              \A u \in Registered :
                 users[u].role \in {"patient", "doctor"} =>
                    Cardinality(ProfilesOf(u)) = 1)
  /\ [][/\ \A s \in Slots :
            (req[s].op = "register" /\ req[s].pc = "findUser"
               /\ EmailTaken(req[s].email)) =>
              /\ req'[s] # req[s] => resp'.code = 409
              /\ users' = users \/ req'[s] = req[s]
        /\ resp'.to.op = "register" =>
              /\ resp'.code # 201 =>
                    /\ resp'.to.user._id \notin DOMAIN users'
                    /\ patients' = patients /\ doctors' = doctors
              /\ resp'.code = 201 =>
                    /\ resp'.to.user._id \in DOMAIN users'
                    /\ users'[resp'.to.user._id].email = resp'.to.email]_vars

\* identity user is admin or the one the stored profile id references
MayAccess(user, id) ==
  user.role = "admin" \/ patients[id].user = user._id

\* the request that arrives in this step is answered by the guard itself
GuardAnswers(code) ==
  /\ resp'.code = code /\ resp'.to.op \in GuardedRoutes /\ resp'.to.pc = "idle"
  /\ req' = req

====
